---- MODULE Spec2Model ----
(***************************************************************************)
(* LC-3 virtual machine (src/lc3.c): the start-up code of main, the        *)
(* fetch-decode-execute loop, the memory-mapped keyboard registers, the    *)
(* trap routines and the terminal handling around them.                    *)
(*                                                                         *)
(* Words are 16-bit: every value stored in reg or memory is taken modulo   *)
(* 2^16, as the uint16_t assignments of the source do.                     *)
(*                                                                         *)
(* memory is the 65536-word array.  The words the image loader put there   *)
(* are the program's input: the model holds the words determined so far    *)
(* (those the machine has read or written) and draws a word that is read   *)
(* for the first time from ImageWords, fixing it from then on.             *)
(***************************************************************************)
EXTENDS Integers, Sequences, FiniteSets, TLC

\* ------------------------------------------------------------ constants
MEMORY_MAX == 65536
MR_KBSR == 65024
MR_KBDR == 65026
R_R0 == 0
R_R7 == 7
R_PC == 8
R_COND == 9
R_COUNT == 10
OP_BR == 0
OP_ADD == 1
OP_LD == 2
OP_ST == 3
OP_JSR == 4
OP_AND == 5
OP_LDR == 6
OP_STR == 7
OP_RTI == 8
OP_NOT == 9
OP_LDI == 10
OP_STI == 11
OP_JMP == 12
OP_RES == 13
OP_LEA == 14
OP_TRAP == 15
FL_POS == 1
FL_ZRO == 2
FL_NEG == 4
TRAP_GETC == 32
TRAP_OUT == 33
TRAP_PUTS == 34
TRAP_IN == 35
TRAP_PUTSP == 36
TRAP_HALT == 37
PC_START == 12288
\* getchar() at end of input
EOF == -1

\* --------------------------------------------------------------- bounds
\* instructions fetched in one run
MaxSteps == 3
\* bytes typed on the keyboard in one run
MaxKeys == 1
\* words of a string that PUTS/PUTSP meet in memory not read before
MaxStr == 1
\* image files on one command line
MaxImages == 2
\* payload words in one image file
MaxWords == 2

\* the bytes the keyboard can deliver: 'A' and a byte with bit 7 set
InputBytes == {65, 233}

\* The words of the images: what memory can hold at an address the machine reads
\* for the first time, by the use of that first read.
\* ... by PUTS/PUTSP: the terminator, 'H', and the packed pair 'H','i'
StrWords == {0, 72, 26952}

\* ... as data: 0xFFFF and the address of KBSR
DataWords == {65535, 65024}

\* ... as an instruction
InstrWords ==
  { 0,       \* 0x0000 BR with mask 000
    1026,    \* 0x0402 BRz #2
    4095,    \* 0x0FFF BRnzp #-1
    4129,    \* 0x1021 ADD R0,R0,#1
    4735,    \* 0x127F ADD R1,R1,#-1
    4162,    \* 0x1042 ADD R0,R1,R2
    8704,    \* 0x2200 LD R1,#0
    12801,   \* 0x3201 ST R1,#1
    18434,   \* 0x4802 JSR #2
    16448,   \* 0x4040 JSRR R1
    16832,   \* 0x41C0 JSRR R7
    20512,   \* 0x5020 AND R0,R0,#0
    21058,   \* 0x5242 AND R1,R1,R2
    25664,   \* 0x6440 LDR R2,R1,#0
    28736,   \* 0x7040 STR R0,R1,#0
    32768,   \* 0x8000 RTI
    36927,   \* 0x903F NOT R0,R0
    41473,   \* 0xA201 LDI R1,#1
    45569,   \* 0xB201 STI R1,#1
    49600,   \* 0xC1C0 JMP R7 (RET)
    49216,   \* 0xC040 JMP R1
    53248,   \* 0xD000 reserved opcode
    57346,   \* 0xE002 LEA R0,#2
    61472,   \* 0xF020 TRAP GETC
    61473,   \* 0xF021 TRAP OUT
    61474,   \* 0xF022 TRAP PUTS
    61475,   \* 0xF023 TRAP IN
    61476,   \* 0xF024 TRAP PUTSP
    61477,   \* 0xF025 TRAP HALT
    61440    \* 0xF000 TRAP with an unknown vector
  }

\* --------------------------------------------------- 16-bit arithmetic
\* a value converted to uint16_t
U16(x) == x % 65536

RECURSIVE BitAnd(_, _, _)
\* x & y on the low n bits
BitAnd(x, y, n) ==
  IF n = 0 THEN 0
  ELSE ((x % 2) * (y % 2)) + 2 * BitAnd(x \div 2, y \div 2, n - 1)

RECURSIVE BitOr(_, _, _)
\* x | y on the low n bits
BitOr(x, y, n) ==
  IF n = 0 THEN 0
  ELSE (IF (x % 2) + (y % 2) > 0 THEN 1 ELSE 0) + 2 * BitOr(x \div 2, y \div 2, n - 1)

\* x >> n
Shr(x, n) == x \div (2 ^ n)

\* mutation of sign_extend: the fill mask starts one bit too high
sign_extend_high(x, bit_count) ==
  IF Shr(x, bit_count - 1) % 2 = 1
  THEN U16(BitOr(x, (65535 * (2 ^ (bit_count + 1))) % 65536, 16))
  ELSE x

\* sign_extend: x |= (0xFFFF << bit_count) when bit (bit_count - 1) is set,
\* the result stored back into a uint16_t
sign_extend(x, bit_count) ==
  IF Shr(x, bit_count - 1) % 2 = 1
  THEN U16(BitOr(x, (65535 * (2 ^ bit_count)) % 65536, 16))
  ELSE x

\* instr >> 12
Op(i) == Shr(i, 12)
\* (instr >> 9) & 0x7
F9(i) == Shr(i, 9) % 8
\* (instr >> 6) & 0x7
F6(i) == Shr(i, 6) % 8
\* instr & 0x7
F0(i) == i % 8

VARIABLES
  argv,         \* the image files named on the command line, where the model
                \* holds them (SpecLoad); <<>> where the words of the images are
                \* left to be determined when first read
  phase,        \* where main is
  reg,          \* reg[R_COUNT]
  memory,       \* memory[MEMORY_MAX], the words determined so far
  instr,        \* main's local instr: the instruction fetched last
  running,      \* main's local running
  tio,          \* the terminal's settings
  original_tio, \* the global original_tio
  handler,      \* whether handle_interrupt is installed for SIGINT
  kbd,          \* bytes the terminal holds, typed and not yet read
  stdin_buf,    \* bytes read from the terminal into stdin's buffer
  eof,          \* whether the terminal input has ended
  keys,         \* bytes typed so far
  out,          \* bytes written to stdout
  status,       \* how the process ended
  last_write,   \* history: <<address, val>> of the last mem_write, <<>> when none
                \* or when a poll has since stored a character there
  at_fetch,     \* history: reg as the last fetch found it, <<>> before the first
  budget        \* fetches left to the run

vars == <<argv, phase, reg, memory, instr, running, tio, original_tio, handler,
          kbd, stdin_buf, eof, keys, out, status, last_write, at_fetch, budget>>

\* ----------------------------------------------------------------- input
\* The keyboard as the program meets it: [kbd, buf, eof, keys].  Keys are typed
\* at any time; the program learns of them only when it examines the terminal
\* (select in check_key, read in getchar), so the keys typed since the last
\* examination are an input of the next one.

\* sequences of at most n typed bytes
NewKeys(n) == UNION {[1 .. k -> InputBytes] : k \in 0 .. n}

\* the keyboard when the terminal is examined: more keys may have been typed
\* and the input may have ended
Arrive(io) ==
  IF io.eof THEN {io}
  ELSE { [io EXCEPT !.kbd = @ \o new, !.keys = @ + Len(new), !.eof = e]
         : new \in NewKeys(MaxKeys - io.keys), e \in BOOLEAN }

\* check_key: select() on stdin with a zero timeout, != 0.  The descriptor is
\* readable when the terminal holds unread bytes and also at end of input.
check_key(io) == io.kbd # <<>> \/ io.eof

\* getchar: the outcomes [ch, io].  The next byte of stdin's buffer; an empty
\* buffer is first filled by one read() taking every byte the terminal holds;
\* EOF at end of input.  No outcome while the call blocks.
getchar(io) ==
  IF io.buf # <<>> THEN {[ch |-> Head(io.buf), io |-> [io EXCEPT !.buf = Tail(@)]]}
  ELSE UNION {
         IF a.kbd # <<>>
         THEN {[ch |-> Head(a.kbd), io |-> [a EXCEPT !.kbd = <<>>, !.buf = Tail(a.kbd)]]}
         ELSE IF a.eof THEN {[ch |-> EOF, io |-> a]}
         ELSE {}
         : a \in Arrive(io) }

\* ---------------------------------------------------------------- memory
\* the word an image holds at address a: the one determined, or any of words
Peek(mem, a, words) == IF a \in DOMAIN mem THEN {mem[a]} ELSE words

\* memory with memory[a] = v
Put(mem, a, v) == [x \in (DOMAIN mem) \cup {a} |-> IF x = a THEN v ELSE mem[x]]

\* mutation of mem_write: the address is taken one too high
mem_write_off(mem, address, val) == Put(mem, U16(address + 1), val)

\* mem_write
mem_write(mem, address, val) == Put(mem, address, val)

\* mutation of mem_read: KBSR is read like any other word
mem_read_plain(mem, io, address, words) ==
  { [val |-> v, mem |-> Put(mem, address, v), io |-> io] : v \in Peek(mem, address, words) }

\* mem_read: the outcomes [val, mem, io] of reading address
mem_read(mem, io, address, words) ==
  IF address = MR_KBSR
  THEN UNION {
         IF check_key(a)
         THEN { LET m == Put(Put(mem, MR_KBSR, 32768), MR_KBDR, U16(c.ch))
                IN [val |-> m[address], mem |-> m, io |-> c.io]
                : c \in getchar(a) }
         ELSE { LET m == Put(mem, MR_KBSR, 0)
                IN [val |-> m[address], mem |-> m, io |-> a] }
         : a \in Arrive(io) }
  ELSE { [val |-> v, mem |-> Put(mem, address, v), io |-> io]
         : v \in Peek(mem, address, words) }

\* ------------------------------------------------------------- registers
\* mutation of update_flags: a zero result leaves no flag set
update_flags_noz(rg, r) ==
  IF rg[r] = 0 THEN [rg EXCEPT ![R_COND] = 0]
  ELSE IF Shr(rg[r], 15) # 0 THEN [rg EXCEPT ![R_COND] = FL_NEG]
  ELSE [rg EXCEPT ![R_COND] = FL_POS]

\* update_flags
update_flags(rg, r) ==
  IF rg[r] = 0 THEN [rg EXCEPT ![R_COND] = FL_ZRO]
  ELSE IF Shr(rg[r], 15) # 0 THEN [rg EXCEPT ![R_COND] = FL_NEG]
  ELSE [rg EXCEPT ![R_COND] = FL_POS]

\* mutation of the fetch: the increment does not wrap to 16 bits
NextPC_nowrap(rg) == [rg EXCEPT ![R_PC] = rg[R_PC] + 1]

\* reg[R_PC]++ of the fetch
NextPC(rg) == [rg EXCEPT ![R_PC] = U16(rg[R_PC] + 1)]


\* ------------------------------------------------------------- handlers
\* Each takes the register file after the fetch (PC already incremented) and
\* the instruction word, and gives the register file after the handler.

\* mutation of OP_ADD: the flags are taken from SR1
ExecADD_sr(rg, i) ==
  LET r0 == F9(i)
      r1 == F6(i)
      v == IF Shr(i, 5) % 2 = 1 THEN U16(rg[r1] + sign_extend(i % 32, 5))
           ELSE U16(rg[r1] + rg[F0(i)])
  IN update_flags([rg EXCEPT ![r0] = v], r1)

\* case OP_ADD
ExecADD(rg, i) ==
  LET r0 == F9(i)
      r1 == F6(i)
      v == IF Shr(i, 5) % 2 = 1 THEN U16(rg[r1] + sign_extend(i % 32, 5))
           ELSE U16(rg[r1] + rg[F0(i)])
  IN update_flags([rg EXCEPT ![r0] = v], r0)

\* mutation of OP_AND: the immediate is used without sign extension
ExecAND_imm(rg, i) ==
  LET r0 == F9(i)
      r1 == F6(i)
      v == IF Shr(i, 5) % 2 = 1 THEN BitAnd(rg[r1], i % 32, 16)
           ELSE BitAnd(rg[r1], rg[F0(i)], 16)
  IN update_flags([rg EXCEPT ![r0] = v], r0)

\* case OP_AND
ExecAND(rg, i) ==
  LET r0 == F9(i)
      r1 == F6(i)
      v == IF Shr(i, 5) % 2 = 1 THEN BitAnd(rg[r1], sign_extend(i % 32, 5), 16)
           ELSE BitAnd(rg[r1], rg[F0(i)], 16)
  IN update_flags([rg EXCEPT ![r0] = v], r0)

\* mutation of OP_NOT: the two's complement instead of the bitwise complement
ExecNOT_neg(rg, i) ==
  LET r0 == F9(i)
      r1 == F6(i)
  IN update_flags([rg EXCEPT ![r0] = U16(65536 - rg[r1])], r0)

\* case OP_NOT: ~reg[r1] stored into a uint16_t
ExecNOT(rg, i) ==
  LET r0 == F9(i)
      r1 == F6(i)
  IN update_flags([rg EXCEPT ![r0] = 65535 - rg[r1]], r0)

\* mutation of OP_BR: the branch is taken whatever the flags are
ExecBR_always(rg, i) ==
  [rg EXCEPT ![R_PC] = U16(rg[R_PC] + sign_extend(i % 512, 9))]

\* mutation of OP_BR: a taken branch also sets the flags from R0
ExecBR_flags(rg, i) ==
  IF BitAnd(F9(i), rg[R_COND], 16) # 0
  THEN update_flags([rg EXCEPT ![R_PC] = U16(rg[R_PC] + sign_extend(i % 512, 9))], R_R0)
  ELSE rg

\* case OP_BR
ExecBR(rg, i) ==
  LET pc_offset == sign_extend(i % 512, 9)
      cond_flag == F9(i)
  IN IF BitAnd(cond_flag, rg[R_COND], 16) # 0
     THEN [rg EXCEPT ![R_PC] = U16(rg[R_PC] + pc_offset)]
     ELSE rg

\* case OP_JMP as main.c has it: reg[R_PC] = base_reg
ExecJMP_main(rg, i) == [rg EXCEPT ![R_PC] = F6(i)]

\* case OP_JMP
ExecJMP(rg, i) == [rg EXCEPT ![R_PC] = rg[F6(i)]]

\* mutation of OP_JSR: R7 receives the new PC
ExecJSR_late(rg, i) ==
  LET tgt == IF Shr(i, 11) % 2 = 1 THEN U16(rg[R_PC] + sign_extend(i % 2048, 11))
             ELSE rg[F6(i)]
  IN [rg EXCEPT ![R_PC] = tgt, ![R_R7] = tgt]

\* case OP_JSR: R7 is written first, so JSRR reads the base register after it
ExecJSR(rg, i) ==
  LET long_flag == Shr(i, 11) % 2
      linked == [rg EXCEPT ![R_R7] = rg[R_PC]]
  IN IF long_flag = 1
     THEN [linked EXCEPT ![R_PC] = U16(linked[R_PC] + sign_extend(i % 2048, 11))]
     ELSE [linked EXCEPT ![R_PC] = linked[F6(i)]]

\* mutation of OP_LEA: the offset is counted from the address of the
\* instruction itself
ExecLEA_behind(rg, i) ==
  LET dr == F9(i)
  IN update_flags([rg EXCEPT ![dr] = U16(rg[R_PC] + 65535 + sign_extend(i % 512, 9))], dr)

\* case OP_LEA
ExecLEA(rg, i) ==
  LET dr == F9(i)
  IN update_flags([rg EXCEPT ![dr] = U16(rg[R_PC] + sign_extend(i % 512, 9))], dr)

\* the register write and flag update that end OP_LD, OP_LDI and OP_LDR
Loaded(rg, i, v) == update_flags([rg EXCEPT ![F9(i)] = v], F9(i))

\* mutation of the PC-relative address: the offset is counted from the
\* address of the instruction itself
AddrPC9_behind(rg, i) == U16(rg[R_PC] + 65535 + sign_extend(i % 512, 9))

\* reg[R_PC] + pc_offset_9, as the uint16_t address argument
AddrPC9(rg, i) == U16(rg[R_PC] + sign_extend(i % 512, 9))

\* mutation of the base-relative address: the offset is not sign-extended
AddrBase6_unsigned(rg, i) == U16(rg[F6(i)] + (i % 64))

\* reg[base] + offset6, as the uint16_t address argument
AddrBase6(rg, i) == U16(rg[F6(i)] + sign_extend(i % 64, 6))

\* case OP_TRAP: reg[R_R7] = reg[R_PC], before the switch on instr & 0xFF
TrapLink(rg) == [rg EXCEPT ![R_R7] = rg[R_PC]]

\* ---------------------------------------------------------------- output
\* "Thanks for playing!" and the newline puts() adds
MsgHalt == <<84, 104, 97, 110, 107, 115, 32, 102, 111, 114, 32, 112, 108, 97, 121, 105, 110, 103, 33, 10>>
\* "*** Enter a character: "
MsgPrompt == <<42, 42, 42, 32, 69, 110, 116, 101, 114, 32, 97, 32, 99, 104, 97, 114, 97, 99, 116, 101, 114, 58, 32>>
\* "\nRead character: "
MsgRead == <<10, 82, 101, 97, 100, 32, 99, 104, 97, 114, 97, 99, 116, 101, 114, 58, 32>>
\* "Not enough arguments! ex: ./lc3-vm 2048.obj\n"
MsgUsage == <<78, 111, 116, 32, 101, 110, 111, 117, 103, 104, 32, 97, 114, 103, 117, 109, 101, 110, 116, 115, 33, 32, 101, 120, 58, 32, 46, 47, 108, 99, 51, 45, 118, 109, 32, 50, 48, 52, 56, 46, 111, 98, 106, 10>>
\* "failed to load image: " and the newline after the path
MsgLoad == <<102, 97, 105, 108, 101, 100, 32, 116, 111, 32, 108, 111, 97, 100, 32, 105, 109, 97, 103, 101, 58, 32, 10>>
\* what a read past the end of memory[] can find there
JunkBytes == {63}

RECURSIVE Scan(_, _, _)
\* The while (*c) loop of TRAP_PUTS and TRAP_PUTSP from pointer memory + c: the
\* outcomes [mem, str, oob], str the words before the first zero word.  The
\* pointer is not reduced modulo 2^16: when it reaches memory + MEMORY_MAX the
\* loop reads past the array (oob).  n bounds the words met for the first time.
Scan(mem, c, n) ==
  IF c = MEMORY_MAX THEN {[mem |-> mem, str |-> <<>>, oob |-> TRUE]}
  ELSE UNION {
         IF w = 0 THEN {[mem |-> Put(mem, c, 0), str |-> <<>>, oob |-> FALSE]}
         ELSE {[r EXCEPT !.str = <<w>> \o r.str]
               : r \in Scan(Put(mem, c, w), c + 1, IF c \in DOMAIN mem THEN n ELSE n - 1)}
         : w \in IF c \in DOMAIN mem THEN {mem[c]}
                 ELSE IF n > 0 THEN StrWords ELSE {0} }

RECURSIVE PutsBytes(_)
\* TRAP_PUTS: putc((char)*c) for each word
PutsBytes(str) ==
  IF str = <<>> THEN <<>> ELSE <<Head(str) % 256>> \o PutsBytes(Tail(str))

RECURSIVE PutspBytes(_)
\* TRAP_PUTSP: the low byte, then the high byte when it is not zero
PutspBytes(str) ==
  IF str = <<>> THEN <<>>
  ELSE LET char1 == Head(str) % 256
           char2 == Shr(Head(str), 8)
       IN (IF char2 # 0 THEN <<char1, char2>> ELSE <<char1>>) \o PutspBytes(Tail(str))

\* (uint16_t)c for char c = getchar(): char is signed or unsigned as the build has it
CharToU16(ch, signed_char) ==
  LET byte == U16(ch) % 256
  IN IF signed_char /\ byte >= 128 THEN U16(byte - 256) ELSE byte

\* ------------------------------------------------------------------ init
Init ==
  /\ argv = <<>>
  /\ phase = "start"
  /\ reg = [r \in 0 .. (R_COUNT - 1) |-> 0]
  /\ memory = <<>>
  /\ instr = 0
  /\ running = 0
  /\ tio = "cooked"
  /\ original_tio = "zeroed"
  /\ handler = FALSE
  /\ kbd = <<>>
  /\ stdin_buf = <<>>
  /\ eof = FALSE
  /\ keys = 0
  /\ out = <<>>
  /\ status = "none"
  /\ last_write = <<>>
  /\ at_fetch = <<>>
  /\ budget = MaxSteps

\* ------------------------------------------------------------- start-up
\* The process ends: what it held is gone.  The terminal settings, the terminal's
\* unread input, the output written and the way the process ended remain.
Gone ==
  /\ phase' = "exited"
  /\ reg' = [r \in 0 .. (R_COUNT - 1) |-> 0]
  /\ memory' = <<>>
  /\ instr' = 0
  /\ running' = 0
  /\ original_tio' = "zeroed"
  /\ handler' = FALSE
  /\ stdin_buf' = <<>>
  /\ last_write' = <<>>
  /\ at_fetch' = <<>>
  /\ UNCHANGED <<argv, kbd, eof, keys, budget>>

\* main, argc < 2
Usage ==
  /\ phase = "start"
  /\ out' = out \o MsgUsage
  /\ status' = "exit2"
  /\ tio' = tio
  /\ Gone

\* main, read_image returned 0 for some argument
LoadFail ==
  /\ phase = "start"
  /\ out' = out \o MsgLoad
  /\ status' = "exit1"
  /\ tio' = tio
  /\ Gone

\* main, every image read: memory holds the images' words
LoadImages ==
  /\ phase = "start"
  /\ phase' = "loaded"
  /\ UNCHANGED <<reg, memory, instr, running, tio, original_tio, handler,
                 kbd, stdin_buf, eof, keys, out, status, last_write, at_fetch, budget, argv>>

\* signal(SIGINT, handle_interrupt)
InstallHandler ==
  /\ phase = "loaded"
  /\ handler' = TRUE
  /\ phase' = "installed"
  /\ UNCHANGED <<reg, memory, instr, running, tio, original_tio,
                 kbd, stdin_buf, eof, keys, out, status, last_write, at_fetch, budget, argv>>

\* disable_input_buffering: tcgetattr
TcGetAttr ==
  /\ phase = "installed"
  /\ original_tio' = tio
  /\ phase' = "saved"
  /\ UNCHANGED <<reg, memory, instr, running, tio, handler,
                 kbd, stdin_buf, eof, keys, out, status, last_write, at_fetch, budget, argv>>

\* disable_input_buffering: tcsetattr; then COND, PC and running are set
TcSetAttr ==
  /\ phase = "saved"
  /\ tio' = "raw"
  /\ reg' = [reg EXCEPT ![R_COND] = FL_ZRO, ![R_PC] = PC_START]
  /\ running' = 1
  /\ phase' = "run"
  /\ UNCHANGED <<memory, instr, original_tio, handler,
                 kbd, stdin_buf, eof, keys, out, status, last_write, at_fetch, budget, argv>>

\* mutation of restore_input_buffering: the terminal is left as it is
restore_input_buffering_not == tio' = tio

\* restore_input_buffering: tcsetattr(original_tio)
restore_input_buffering == tio' = original_tio

\* the loop has ended: restore_input_buffering, main returns
Shutdown ==
  /\ phase = "run"
  /\ running = 0
  /\ restore_input_buffering
  /\ status' = "exit0"
  /\ out' = out
  /\ Gone

\* SIGINT: handle_interrupt when installed, else the default disposition
Interrupt ==
  /\ phase # "exited"
  /\ IF handler
     THEN /\ restore_input_buffering
          /\ out' = out \o <<10>>
          /\ status' = "exit254"
     ELSE /\ status' = "sigint"
          /\ UNCHANGED <<tio, out>>
  /\ Gone

\* abort(): SIGABRT ends the process
Abort ==
  /\ phase = "abort"
  /\ status' = "sigabrt"
  /\ UNCHANGED <<tio, out>>
  /\ Gone

\* a read past the end of memory[] faults: SIGSEGV ends the process
Fault ==
  /\ phase = "fault"
  /\ status' = "sigsegv"
  /\ UNCHANGED <<tio, out>>
  /\ Gone

\* ------------------------------------------------------------- main loop
\* while (running), within the bound on fetches
Running == phase = "run" /\ running = 1 /\ budget > 0

\* the keyboard as the variables hold it
IO == [kbd |-> kbd, buf |-> stdin_buf, eof |-> eof, keys |-> keys]

\* the instruction words of opcode op, of the opcodes ops, of trap vector v
WordsOp(op) == {w \in InstrWords : Op(w) = op}
WordsOps(ops) == {w \in InstrWords : Op(w) \in ops}
WordsTrap(v) == {w \in InstrWords : Op(w) = OP_TRAP /\ w % 256 = v}
WordsTrapOther ==
  {w \in InstrWords : Op(w) = OP_TRAP /\ w % 256 \notin
     {TRAP_GETC, TRAP_OUT, TRAP_PUTS, TRAP_IN, TRAP_PUTSP, TRAP_HALT}}

\* mem_read(reg[R_PC]) of the fetch; a word not yet determined is one of words
Fetch(words) == mem_read(memory, IO, reg[R_PC], words)

\* last_write, ended when a poll has stored a character over its word in KBDR
Keep(lw, mem) ==
  IF lw # <<>> /\ lw[1] = MR_KBDR /\ mem[MR_KBDR] # lw[2] THEN <<>> ELSE lw

\* one turn of the loop ends: instruction i was fetched, the registers are rg,
\* memory is mem, the keyboard io, the last write lw
Commit(i, rg, mem, io, lw) ==
  /\ instr' = i
  /\ reg' = rg
  /\ memory' = mem
  /\ kbd' = io.kbd
  /\ stdin_buf' = io.buf
  /\ eof' = io.eof
  /\ keys' = io.keys
  /\ last_write' = Keep(lw, mem)
  /\ at_fetch' = reg
  /\ budget' = budget - 1
  /\ UNCHANGED <<argv, tio, original_tio, handler>>

\* a turn of the loop that only changes registers
RegOnly(f, rg) == Commit(f.val, rg, f.mem, f.io, last_write)

OpADD ==
  /\ Running
  /\ \E f \in Fetch(WordsOp(OP_ADD)) : Op(f.val) = OP_ADD /\ RegOnly(f, ExecADD(NextPC(reg), f.val))
  /\ UNCHANGED <<phase, running, out, status>>

OpAND ==
  /\ Running
  /\ \E f \in Fetch(WordsOp(OP_AND)) : Op(f.val) = OP_AND /\ RegOnly(f, ExecAND(NextPC(reg), f.val))
  /\ UNCHANGED <<phase, running, out, status>>

OpNOT ==
  /\ Running
  /\ \E f \in Fetch(WordsOp(OP_NOT)) : Op(f.val) = OP_NOT /\ RegOnly(f, ExecNOT(NextPC(reg), f.val))
  /\ UNCHANGED <<phase, running, out, status>>

OpBR ==
  /\ Running
  /\ \E f \in Fetch(WordsOp(OP_BR)) : Op(f.val) = OP_BR /\ RegOnly(f, ExecBR(NextPC(reg), f.val))
  /\ UNCHANGED <<phase, running, out, status>>

OpJMP ==
  /\ Running
  /\ \E f \in Fetch(WordsOp(OP_JMP)) : Op(f.val) = OP_JMP /\ RegOnly(f, ExecJMP(NextPC(reg), f.val))
  /\ UNCHANGED <<phase, running, out, status>>

\* case OP_JMP of main.c
OpJMP_main ==
  /\ Running
  /\ \E f \in Fetch(WordsOp(OP_JMP)) : Op(f.val) = OP_JMP /\ RegOnly(f, ExecJMP_main(NextPC(reg), f.val))
  /\ UNCHANGED <<phase, running, out, status>>

OpJSR ==
  /\ Running
  /\ \E f \in Fetch(WordsOp(OP_JSR)) : Op(f.val) = OP_JSR /\ RegOnly(f, ExecJSR(NextPC(reg), f.val))
  /\ UNCHANGED <<phase, running, out, status>>

OpLEA ==
  /\ Running
  /\ \E f \in Fetch(WordsOp(OP_LEA)) : Op(f.val) = OP_LEA /\ RegOnly(f, ExecLEA(NextPC(reg), f.val))
  /\ UNCHANGED <<phase, running, out, status>>

OpLD ==
  /\ Running
  /\ \E f \in Fetch(WordsOp(OP_LD)) :
       /\ Op(f.val) = OP_LD
       /\ LET rg == NextPC(reg)
          IN \E r \in mem_read(f.mem, f.io, AddrPC9(rg, f.val), DataWords) :
               RegOnly([r EXCEPT !.val = f.val], Loaded(rg, f.val, r.val))
  /\ UNCHANGED <<phase, running, out, status>>

OpLDI ==
  /\ Running
  /\ \E f \in Fetch(WordsOp(OP_LDI)) :
       /\ Op(f.val) = OP_LDI
       /\ LET rg == NextPC(reg)
          IN \E q \in mem_read(f.mem, f.io, AddrPC9(rg, f.val), DataWords) :
               \E r \in mem_read(q.mem, q.io, q.val, DataWords) :
                 RegOnly([r EXCEPT !.val = f.val], Loaded(rg, f.val, r.val))
  /\ UNCHANGED <<phase, running, out, status>>

OpLDR ==
  /\ Running
  /\ \E f \in Fetch(WordsOp(OP_LDR)) :
       /\ Op(f.val) = OP_LDR
       /\ LET rg == NextPC(reg)
          IN \E r \in mem_read(f.mem, f.io, AddrBase6(rg, f.val), DataWords) :
               RegOnly([r EXCEPT !.val = f.val], Loaded(rg, f.val, r.val))
  /\ UNCHANGED <<phase, running, out, status>>

\* a turn of the loop that ends with mem_write(address, val) on memory mem
Store(f, rg, mem, io, address, val) ==
  Commit(f.val, rg, mem_write(mem, address, val), io, <<address, val>>)

OpST ==
  /\ Running
  /\ \E f \in Fetch(WordsOp(OP_ST)) :
       /\ Op(f.val) = OP_ST
       /\ LET rg == NextPC(reg)
          IN Store(f, rg, f.mem, f.io, AddrPC9(rg, f.val), rg[F9(f.val)])
  /\ UNCHANGED <<phase, running, out, status>>

OpSTI ==
  /\ Running
  /\ \E f \in Fetch(WordsOp(OP_STI)) :
       /\ Op(f.val) = OP_STI
       /\ LET rg == NextPC(reg)
          IN \E q \in mem_read(f.mem, f.io, AddrPC9(rg, f.val), DataWords) :
               Store(f, rg, q.mem, q.io, q.val, rg[F9(f.val)])
  /\ UNCHANGED <<phase, running, out, status>>

OpSTR ==
  /\ Running
  /\ \E f \in Fetch(WordsOp(OP_STR)) :
       /\ Op(f.val) = OP_STR
       /\ LET rg == NextPC(reg)
          IN Store(f, rg, f.mem, f.io, AddrBase6(rg, f.val), rg[F9(f.val)])
  /\ UNCHANGED <<phase, running, out, status>>

\* mutation of OpAbort: the case breaks out of the switch without abort()
OpAbort_on ==
  /\ Running
  /\ \E f \in Fetch(WordsOps({OP_RES, OP_RTI})) :
       /\ Op(f.val) \in {OP_RES, OP_RTI}
       /\ RegOnly(f, NextPC(reg))
  /\ UNCHANGED <<phase, running, out, status>>

\* case OP_RES, case OP_RTI, up to the call of abort()
OpAbort ==
  /\ Running
  /\ \E f \in Fetch(WordsOps({OP_RES, OP_RTI})) :
       /\ Op(f.val) \in {OP_RES, OP_RTI}
       /\ RegOnly(f, NextPC(reg))
  /\ phase' = "abort"
  /\ UNCHANGED <<running, out, status>>

\* ----------------------------------------------------------------- traps
\* the fetch of a TRAP whose vector is v
IsTrap(f, v) == Op(f.val) = OP_TRAP /\ f.val % 256 = v

\* TRAP_GETC up to the call of getchar, which may block
TrapGETC ==
  /\ Running
  /\ \E f \in Fetch(WordsTrap(TRAP_GETC)) : IsTrap(f, TRAP_GETC) /\ RegOnly(f, TrapLink(NextPC(reg)))
  /\ phase' = "getc"
  /\ UNCHANGED <<running, out, status>>

\* TRAP_GETC from the return of getchar
GetcRead ==
  /\ phase = "getc"
  /\ \E c \in getchar(IO) :
       /\ reg' = update_flags([reg EXCEPT ![R_R0] = U16(c.ch)], R_R0)
       /\ kbd' = c.io.kbd
       /\ stdin_buf' = c.io.buf
       /\ eof' = c.io.eof
       /\ keys' = c.io.keys
  /\ phase' = "run"
  /\ UNCHANGED <<memory, instr, running, tio, original_tio, handler, out,
                 status, last_write, at_fetch, budget, argv>>

TrapOUT ==
  /\ Running
  /\ \E f \in Fetch(WordsTrap(TRAP_OUT)) : IsTrap(f, TRAP_OUT) /\ RegOnly(f, TrapLink(NextPC(reg)))
  /\ out' = out \o <<reg[R_R0] % 256>>
  /\ UNCHANGED <<phase, running, status>>

\* TRAP_PUTS and TRAP_PUTSP after the scan sc, which wrote bytes.  A scan that
\* ran past the end of memory[] is undefined: the read faults, with the bytes
\* still in stdio's buffer or already written, or what lies behind the array
\* ends the string at once or after a junk byte.
AfterScan(sc, bytes) ==
  IF sc.oob
  THEN \/ /\ \E written \in {<<>>, bytes} : out' = out \o written
          /\ phase' = "fault"
          /\ UNCHANGED <<running, status>>
       \/ /\ \E junk \in {<<>>} \cup {<<j>> : j \in JunkBytes} : out' = out \o bytes \o junk
          /\ UNCHANGED <<phase, running, status>>
  ELSE /\ out' = out \o bytes
       /\ UNCHANGED <<phase, running, status>>

TrapPUTS ==
  /\ Running
  /\ \E f \in Fetch(WordsTrap(TRAP_PUTS)) :
       /\ IsTrap(f, TRAP_PUTS)
       /\ \E sc \in Scan(f.mem, reg[R_R0], MaxStr) :
            /\ RegOnly([f EXCEPT !.mem = sc.mem], TrapLink(NextPC(reg)))
            /\ AfterScan(sc, PutsBytes(sc.str))

TrapPUTSP ==
  /\ Running
  /\ \E f \in Fetch(WordsTrap(TRAP_PUTSP)) :
       /\ IsTrap(f, TRAP_PUTSP)
       /\ \E sc \in Scan(f.mem, reg[R_R0], MaxStr) :
            /\ RegOnly([f EXCEPT !.mem = sc.mem], TrapLink(NextPC(reg)))
            /\ AfterScan(sc, PutspBytes(sc.str))

\* TRAP_IN up to the call of getchar: the prompt is printed
TrapIN ==
  /\ Running
  /\ \E f \in Fetch(WordsTrap(TRAP_IN)) : IsTrap(f, TRAP_IN) /\ RegOnly(f, TrapLink(NextPC(reg)))
  /\ out' = out \o MsgPrompt
  /\ phase' = "in"
  /\ UNCHANGED <<running, status>>

\* TRAP_IN from the return of getchar: char c = getchar()
InRead ==
  /\ phase = "in"
  /\ \E c \in getchar(IO) :
       /\ \E signed_char \in BOOLEAN :
            reg' = update_flags([reg EXCEPT ![R_R0] = CharToU16(c.ch, signed_char)], R_R0)
       /\ out' = out \o MsgRead \o <<U16(c.ch) % 256, 10, U16(c.ch) % 256>>
       /\ kbd' = c.io.kbd
       /\ stdin_buf' = c.io.buf
       /\ eof' = c.io.eof
       /\ keys' = c.io.keys
  /\ phase' = "run"
  /\ UNCHANGED <<memory, instr, running, tio, original_tio, handler,
                 status, last_write, at_fetch, budget, argv>>

TrapHALT ==
  /\ Running
  /\ \E f \in Fetch(WordsTrap(TRAP_HALT)) : IsTrap(f, TRAP_HALT) /\ RegOnly(f, TrapLink(NextPC(reg)))
  /\ out' = out \o MsgHalt
  /\ running' = 0
  /\ UNCHANGED <<phase, status>>

\* a TRAP whose vector matches no case of the inner switch
TrapOther ==
  /\ Running
  /\ \E f \in Fetch(WordsTrapOther) :
       /\ Op(f.val) = OP_TRAP
       /\ f.val % 256 \notin {TRAP_GETC, TRAP_OUT, TRAP_PUTS, TRAP_IN, TRAP_PUTSP, TRAP_HALT}
       /\ RegOnly(f, TrapLink(NextPC(reg)))
  /\ UNCHANGED <<phase, running, out, status>>

\* --------------------------------------------------------- specification
\* the steps of main before the loop
Startup ==
  \/ Usage \/ LoadFail \/ LoadImages \/ InstallHandler \/ TcGetAttr \/ TcSetAttr

\* the loop but for OP_JMP, the traps' reads, the signals and the ends of the
\* process
LoopRest ==
  \/ Shutdown \/ Interrupt \/ Abort \/ Fault
  \/ OpADD \/ OpAND \/ OpNOT \/ OpBR \/ OpJSR \/ OpLEA
  \/ OpLD \/ OpLDI \/ OpLDR \/ OpST \/ OpSTI \/ OpSTR \/ OpAbort
  \/ TrapGETC \/ GetcRead \/ TrapOUT \/ TrapPUTS \/ TrapPUTSP \/ TrapIN \/ InRead
  \/ TrapHALT \/ TrapOther

\* the loop of lc3.c
Loop == LoopRest \/ OpJMP

Next == Startup \/ Loop

\* lc3.c
Spec == Init /\ [][Next]_vars

\* main.c: the same machine with its own OP_JMP case
NextMain == Startup \/ LoopRest \/ OpJMP_main

SpecMain == Init /\ [][NextMain]_vars

\* The machine two instructions into the image
\*   x3000 LD R1,#1   x3001 JMP R1   x3002 .FILL xFDFD
\* that is, about to fetch just below the keyboard registers.
InitKbd ==
  /\ argv = <<>>
  /\ phase = "run"
  /\ reg = [r \in 0 .. (R_COUNT - 1) |->
              IF r \in {1, R_PC} THEN 65021 ELSE IF r = R_COND THEN FL_NEG ELSE 0]
  /\ memory = (12288 :> 8705) @@ (12289 :> 49216) @@ (12290 :> 65021)
  /\ instr = 49216
  /\ running = 1
  /\ tio = "raw"
  /\ original_tio = "cooked"
  /\ handler = TRUE
  /\ kbd = <<>>
  /\ stdin_buf = <<>>
  /\ eof = FALSE
  /\ keys = 0
  /\ out = <<>>
  /\ status = "none"
  /\ last_write = <<>>
  /\ at_fetch = [r \in 0 .. (R_COUNT - 1) |->
                   IF r = 1 THEN 65021 ELSE IF r = R_PC THEN 12289
                   ELSE IF r = R_COND THEN FL_NEG ELSE 0]
  /\ budget = MaxSteps

SpecKbd == InitKbd /\ [][Loop]_vars

\* ------------------------------------------------- a three-instruction run
\* The loop in the middle of a run, about to fetch ADD dr,sr1,sr2 at 0x3000,
\* with NOT dr,dr and ADD dr,dr,#1 behind it: any register numbers, and any
\* of NegValues in the two source registers.  The BRnzp #0 at 0x2FFF has just
\* been executed.  The image also holds the two values as data words at
\* NegData and NegData + 1, which none of the instructions writes.
NegValues == {0, 1, 32767, 32768, 65535}
NegData == 12544
AddRegs(dr, sr1, sr2) == OP_ADD * 4096 + dr * 512 + sr1 * 64 + sr2
NotReg(dr) == OP_NOT * 4096 + dr * 512 + dr * 64 + 63
AddOne(dr) == OP_ADD * 4096 + dr * 512 + dr * 64 + 32 + 1

InitNeg ==
  /\ argv = <<>>
  /\ phase = "run"
  /\ \E dr \in 0 .. 7, sr1 \in 0 .. 7, sr2 \in 0 .. 7 :
     \E a \in NegValues, b \in NegValues, cond \in {FL_POS, FL_ZRO, FL_NEG} :
       /\ sr1 = sr2 => a = b
       /\ reg = [r \in 0 .. (R_COUNT - 1) |->
                   IF r = sr1 THEN a ELSE IF r = sr2 THEN b
                   ELSE IF r = R_PC THEN PC_START
                   ELSE IF r = R_COND THEN cond ELSE 0]
       /\ at_fetch = [r \in 0 .. (R_COUNT - 1) |->
                   IF r = sr1 THEN a ELSE IF r = sr2 THEN b
                   ELSE IF r = R_PC THEN PC_START - 1
                   ELSE IF r = R_COND THEN cond ELSE 0]
       /\ memory = ((PC_START - 1) :> 3584) @@ (PC_START :> AddRegs(dr, sr1, sr2))
                     @@ ((PC_START + 1) :> NotReg(dr)) @@ ((PC_START + 2) :> AddOne(dr))
                     @@ (NegData :> a) @@ ((NegData + 1) :> b)
  /\ instr = 3584
  /\ running = 1
  /\ tio = "raw"
  /\ original_tio = "cooked"
  /\ handler = TRUE
  /\ kbd = <<>>
  /\ stdin_buf = <<>>
  /\ eof = FALSE
  /\ keys = 0
  /\ out = <<>>
  /\ status = "none"
  /\ last_write = <<>>
  /\ budget = MaxSteps

NextNeg == OpADD \/ OpNOT

SpecNeg == InitNeg /\ [][NextNeg]_vars

\* ------------------------------------------ one instruction with an offset
\* The loop in the middle of a run, all registers zero, about to fetch at
\* 0x3000 one of the instruction words that hold a field for sign_extend:
\* ADD R0,R1,#imm5, STR R0,R1,#offset6, LEA R0,#offset9 and JSR #offset11,
\* with every value of the field.  The BRnzp #0 at 0x2FFF has just been
\* executed; one turn of the loop is taken.
SextWords ==
  {OP_ADD * 4096 + 64 + 32 + x : x \in 0 .. 31}
    \cup {OP_STR * 4096 + 64 + x : x \in 0 .. 63}
    \cup {OP_LEA * 4096 + x : x \in 0 .. 511}
    \cup {OP_JSR * 4096 + 2048 + x : x \in 0 .. 2047}

InitSext ==
  /\ argv = <<>>
  /\ phase = "run"
  /\ reg = [r \in 0 .. (R_COUNT - 1) |->
              IF r = R_PC THEN PC_START ELSE IF r = R_COND THEN FL_ZRO ELSE 0]
  /\ at_fetch = [r \in 0 .. (R_COUNT - 1) |->
              IF r = R_PC THEN PC_START - 1 ELSE IF r = R_COND THEN FL_ZRO ELSE 0]
  /\ \E w \in SextWords : memory = ((PC_START - 1) :> 3584) @@ (PC_START :> w)
  /\ instr = 3584
  /\ running = 1
  /\ tio = "raw"
  /\ original_tio = "cooked"
  /\ handler = TRUE
  /\ kbd = <<>>
  /\ stdin_buf = <<>>
  /\ eof = FALSE
  /\ keys = 0
  /\ out = <<>>
  /\ status = "none"
  /\ last_write = <<>>
  /\ budget = 1

NextSext == OpADD \/ OpSTR \/ OpLEA \/ OpJSR

SpecSext == InitSext /\ [][NextSext]_vars

\* ------------------------------------------------- one ADD or AND
\* The loop in the middle of a run, about to fetch at 0x3000 an ADD or an AND
\* with any destination, any first source and any second source or 5-bit
\* immediate, the general-purpose registers holding one of RegFiles.  The
\* BRnzp #0 at 0x2FFF has just been executed; one turn of the loop is taken.
RegFiles ==
  { <<1, 0, 32767, 32768, 65535, 21845, 43690, 255>>,
    <<65535, 65535, 1, 32768, 32768, 4660, 61680, 0>> }

AluWords ==
  {op * 4096 + dr * 512 + sr1 * 64 + low :
     op \in {OP_ADD, OP_AND}, dr \in 0 .. 7, sr1 \in 0 .. 7, low \in (0 .. 7) \cup (32 .. 63)}

InitAlu ==
  /\ argv = <<>>
  /\ phase = "run"
  /\ \E file \in RegFiles, cond \in {FL_POS, FL_ZRO, FL_NEG} :
       /\ reg = [r \in 0 .. (R_COUNT - 1) |->
                   IF r = R_PC THEN PC_START ELSE IF r = R_COND THEN cond ELSE file[r + 1]]
       /\ at_fetch = [r \in 0 .. (R_COUNT - 1) |->
                   IF r = R_PC THEN PC_START - 1 ELSE IF r = R_COND THEN cond ELSE file[r + 1]]
  /\ \E w \in AluWords : memory = ((PC_START - 1) :> 3584) @@ (PC_START :> w)
  /\ instr = 3584
  /\ running = 1
  /\ tio = "raw"
  /\ original_tio = "cooked"
  /\ handler = TRUE
  /\ kbd = <<>>
  /\ stdin_buf = <<>>
  /\ eof = FALSE
  /\ keys = 0
  /\ out = <<>>
  /\ status = "none"
  /\ last_write = <<>>
  /\ budget = 1

NextAlu == OpADD \/ OpAND

SpecAlu == InitAlu /\ [][NextAlu]_vars

\* ------------------------------------------------- one load or store
\* The loop in the middle of a run, about to fetch a load or a store at one
\* of MemPCs: in the middle of memory, at its last address (the incremented
\* PC wraps to 0) and two words below the keyboard status register.  The
\* instruction is any of MemWords, R0..R7 hold one of MemRegFiles, and the
\* data words are one of MemImages: the LDI example of the specification, or
\* only the word 0xFE00 in KBDR, every other word being determined when it is
\* first read.  Keys may arrive at any time.  The BRnzp #0 before the
\* instruction has just been executed; one turn of the loop is taken.
MemPCs == {PC_START, 65535, 65022}

MemWords ==
  {op * 4096 + r * 512 + off : op \in {OP_LD, OP_LDI, OP_ST, OP_STI},
                               r \in {0, 1}, off \in {0, 1, 3, 511}}
    \cup {op * 4096 + r * 512 + base * 64 + off : op \in {OP_LDR, OP_STR},
                               r \in {0, 1}, base \in {1, 2, 3}, off \in {0, 1, 2, 63}}

MemRegFiles ==
  { <<48879, 65024, 65535, 12293, 0, 0, 7, 65023>>,
    <<4660, 12288, 65534, 65023, 0, 0, 7, 12289>> }

MemImages ==
  { (12290 :> 12368) @@ (12368 :> 48879) @@ (MR_KBDR :> 65),
    (MR_KBDR :> 65024) }

InitMem ==
  /\ argv = <<>>
  /\ phase = "run"
  /\ \E pc \in MemPCs, file \in MemRegFiles, w \in MemWords, image \in MemImages :
       /\ reg = [r \in 0 .. (R_COUNT - 1) |->
                   IF r = R_PC THEN pc ELSE IF r = R_COND THEN FL_ZRO ELSE file[r + 1]]
       /\ at_fetch = [r \in 0 .. (R_COUNT - 1) |->
                   IF r = R_PC THEN pc - 1 ELSE IF r = R_COND THEN FL_ZRO ELSE file[r + 1]]
       /\ memory = ((pc - 1) :> 3584) @@ (pc :> w) @@ image
  /\ instr = 3584
  /\ running = 1
  /\ tio = "raw"
  /\ original_tio = "cooked"
  /\ handler = TRUE
  /\ kbd = <<>>
  /\ stdin_buf = <<>>
  /\ eof = FALSE
  /\ keys = 0
  /\ out = <<>>
  /\ status = "none"
  /\ last_write = <<>>
  /\ budget = 1

NextMem == OpLD \/ OpLDI \/ OpLDR \/ OpST \/ OpSTI \/ OpSTR

SpecMem == InitMem /\ [][NextMem]_vars

\* ------------------------------------------- LEA and LDR beside an LD
\* The loop in the middle of a run, returned by the JMP R7 at 0x3100 to one
\* of two pieces of code that lie in the same memory: LEA r,label with
\* LDR r',r,#0 behind it at a and a + 1, and LD r',label either before them
\* at a - 1 or behind them at a + 2, for every label that a 9-bit offset
\* reaches from both.  a is in the middle of memory, at its last address or
\* below the keyboard registers; the words at the label are determined when
\* first read, and keys may arrive at any time.  The turns of the loop taken
\* are those of the piece of code entered.
LeaPCs == {PC_START, 65535, 65008}
LeaRegs == {0, 1}
LeaOffsets == 0 .. 511
RetAddress == 12544

\* the offset off as a number from -256 to 255
Offset9(off) == IF off >= 256 THEN off - 512 ELSE off

InitLea ==
  /\ argv = <<>>
  /\ phase = "run"
  /\ \E a \in LeaPCs, r \in LeaRegs, r2 \in LeaRegs, off \in LeaOffsets, d \in {-1, 2},
        first \in BOOLEAN :
       LET b == U16(a + 65536 + d)
           offb == Offset9(off) + 1 - (d + 1)
           start == IF first THEN a ELSE b
       IN /\ offb \in -256 .. 255
          /\ memory = (RetAddress :> 49600)
                        @@ (a :> (OP_LEA * 4096 + r * 512 + off))
                        @@ (U16(a + 1) :> (OP_LDR * 4096 + r2 * 512 + r * 64))
                        @@ (b :> (OP_LD * 4096 + r2 * 512 + ((offb + 512) % 512)))
          /\ reg = [x \in 0 .. (R_COUNT - 1) |->
                      IF x \in {R_R7, R_PC} THEN start ELSE IF x = R_COND THEN FL_ZRO ELSE 0]
          /\ at_fetch = [x \in 0 .. (R_COUNT - 1) |->
                      IF x = R_R7 THEN start ELSE IF x = R_PC THEN RetAddress
                      ELSE IF x = R_COND THEN FL_ZRO ELSE 0]
          /\ budget = IF first THEN 2 ELSE 1
  /\ instr = 49600
  /\ running = 1
  /\ tio = "raw"
  /\ original_tio = "cooked"
  /\ handler = TRUE
  /\ kbd = <<>>
  /\ stdin_buf = <<>>
  /\ eof = FALSE
  /\ keys = 0
  /\ out = <<>>
  /\ status = "none"
  /\ last_write = <<>>

NextLea == OpLEA \/ OpLDR \/ OpLD

SpecLea == InitLea /\ [][NextLea]_vars

\* --------------------------------------------------------- image loading
\* the origins the image files name
Origins == {0, 12288, 65535}

\* the payload words of the image files, as the two bytes the file holds
PayloadWords == {<<18, 52>>, <<240, 37>>}

RECURSIVE Flatten(_)
\* the bytes of a sequence of two-byte words
Flatten(ws) == IF ws = <<>> THEN <<>> ELSE Head(ws) \o Flatten(Tail(ws))

\* The arguments of main: a file that cannot be opened, or a file that holds
\* an origin and at most MaxWords payload words
ImageFiles ==
  {[opens |-> FALSE, bytes |-> <<>>]} \cup
  {[opens |-> TRUE, bytes |-> <<o \div 256, o % 256>> \o Flatten(ws)]
     : o \in Origins, ws \in UNION {[1 .. n -> PayloadWords] : n \in 0 .. MaxWords}}

\* swap16: (x << 8) | (x >> 8) in a uint16_t
swap16(x) == BitOr(U16(x * 256), Shr(x, 8), 16)

\* item k (from 0) of the file as fread stores it into a uint16_t on the
\* little-endian machine the code is written for
HostWord(bytes, k) == bytes[2 * k + 1] + 256 * bytes[2 * k + 2]

\* mutation of read_image_file: the payload is stored as fread delivers it
read_image_file_raw(mem, bytes) ==
  LET origin == swap16(HostWord(bytes, 0))
      max_read == U16(MEMORY_MAX - origin)
      items == (Len(bytes) - 2) \div 2
      read == IF items < max_read THEN items ELSE max_read
  IN [a \in (DOMAIN mem) \cup {origin + k : k \in 0 .. (read - 1)} |->
        IF a >= origin /\ a < origin + read
        THEN HostWord(bytes, a - origin + 1)
        ELSE mem[a]]

\* read_image_file: memory after the file's words are read at its origin.
\* max_read is a uint16_t.
read_image_file(mem, bytes) ==
  LET origin == swap16(HostWord(bytes, 0))
      max_read == U16(MEMORY_MAX - origin)
      items == (Len(bytes) - 2) \div 2
      read == IF items < max_read THEN items ELSE max_read
  IN [a \in (DOMAIN mem) \cup {origin + k : k \in 0 .. (read - 1)} |->
        IF a >= origin /\ a < origin + read
        THEN swap16(HostWord(bytes, a - origin + 1))
        ELSE mem[a]]

RECURSIVE read_images_rev(_, _)
\* mutation of read_images: the files are read last to first
read_images_rev(mem, files) ==
  IF files = <<>> THEN mem
  ELSE read_image_file(read_images_rev(mem, Tail(files)), Head(files).bytes)

RECURSIVE read_images(_, _)
\* the for loop of main over argv[1] .. argv[argc - 1], every file opening
read_images(mem, files) ==
  IF files = <<>> THEN mem
  ELSE read_images(read_image_file(mem, Head(files).bytes), Tail(files))

\* main with argc < 2
NoArgs == argv = <<>> /\ Usage

\* main with an argument that fopen cannot open
ReadFails ==
  /\ argv # <<>>
  /\ \E j \in DOMAIN argv : ~argv[j].opens
  /\ LoadFail

\* main with every argument read by read_image
ReadImages ==
  /\ phase = "start"
  /\ argv # <<>>
  /\ \A j \in DOMAIN argv : argv[j].opens
  /\ memory' = read_images(memory, argv)
  /\ phase' = "loaded"
  /\ UNCHANGED <<argv, reg, instr, running, tio, original_tio, handler,
                 kbd, stdin_buf, eof, keys, out, status, last_write, at_fetch, budget>>

\* main started with any command line of at most MaxImages image files
InitLoad ==
  /\ argv \in UNION {[1 .. n -> ImageFiles] : n \in 0 .. MaxImages}
  /\ phase = "start"
  /\ reg = [r \in 0 .. (R_COUNT - 1) |-> 0]
  /\ memory = <<>>
  /\ instr = 0
  /\ running = 0
  /\ tio = "cooked"
  /\ original_tio = "zeroed"
  /\ handler = FALSE
  /\ kbd = <<>>
  /\ stdin_buf = <<>>
  /\ eof = FALSE
  /\ keys = 0
  /\ out = <<>>
  /\ status = "none"
  /\ last_write = <<>>
  /\ at_fetch = <<>>
  /\ budget = MaxSteps

\* main up to the loop
NextLoad ==
  \/ NoArgs \/ ReadFails \/ ReadImages
  \/ InstallHandler \/ TcGetAttr \/ TcSetAttr \/ Interrupt

SpecLoad == InitLoad /\ [][NextLoad]_vars

\* ------------------------------------------------------------ properties
\* the loop has been entered and the process has not ended
InLoop == phase \in {"run", "getc", "in", "abort", "fault"}

\* an instruction has been fetched and its handler has run to its end
Executed == phase = "run" /\ at_fetch # <<>>

\* the address of the instruction fetched last, plus one
FetchedPC == U16(at_fetch[R_PC] + 1)

\* the flag update_flags gives for the value v
FlagOf(v) == IF v = 0 THEN FL_ZRO ELSE IF v >= 32768 THEN FL_NEG ELSE FL_POS

\* C1: from the first instruction fetch onward COND holds exactly one of
\* FL_POS, FL_ZRO and FL_NEG: never zero, never two flags at once.
C1_CondOneHot == InLoop => reg[R_COND] \in {FL_POS, FL_ZRO, FL_NEG}

\* C1 witness: each of the three flags has been produced by an instruction;
\* here a positive result after the start value FL_ZRO
C1_Witness == Executed /\ Op(instr) = OP_ADD /\ reg[R_COND] = FL_POS

\* C2: after ADD, AND, NOT, LD, LDI, LDR, LEA, TRAP GETC and TRAP IN, COND is the
\* flag of the 16-bit value now in the destination register (R0 for the traps):
\* FL_ZRO for 0, FL_NEG when bit 15 is set, FL_POS otherwise.
C2_FlagsFollowResult ==
  Executed =>
    /\ Op(instr) \in {OP_ADD, OP_AND, OP_NOT, OP_LD, OP_LDI, OP_LDR, OP_LEA}
         => reg[R_COND] = FlagOf(reg[F9(instr)])
    /\ Op(instr) = OP_TRAP /\ instr % 256 \in {TRAP_GETC, TRAP_IN}
         => reg[R_COND] = FlagOf(reg[R_R0])

\* C2 witness: LD has loaded a word with bit 15 set and COND is FL_NEG
C2_Witness ==
  Executed /\ Op(instr) = OP_LD /\ reg[F9(instr)] = 65535 /\ reg[R_COND] = FL_NEG

\* C3: BR, ST, STI, STR, JSR/JSRR, JMP/RET and the traps OUT, PUTS, PUTSP and
\* HALT leave COND as the fetch found it.
C3_CondUnchanged ==
  at_fetch # <<>> /\ InLoop =>
    /\ Op(instr) \in {OP_BR, OP_ST, OP_STI, OP_STR, OP_JSR, OP_JMP}
         => reg[R_COND] = at_fetch[R_COND]
    /\ Op(instr) = OP_TRAP /\ instr % 256 \in {TRAP_OUT, TRAP_PUTS, TRAP_PUTSP, TRAP_HALT}
         => reg[R_COND] = at_fetch[R_COND]

\* C3 witness: a branch was taken with COND no longer the start value, and COND
\* is still what it was
C3_Witness ==
  /\ Executed
  /\ Op(instr) = OP_BR
  /\ reg[R_PC] # FetchedPC
  /\ at_fetch[R_COND] = FL_NEG
  /\ reg[R_COND] = FL_NEG

\* C4: JMP (RET included) sets PC to the contents the base register had, not
\* to the register's number.  It holds of lc3.c; main.c's OP_JMP breaks it.
C4_JmpRegisterContents ==
  Executed /\ Op(instr) = OP_JMP => reg[R_PC] = at_fetch[F6(instr)]

\* C5: the fetch at address a leaves PC at (a + 1) mod 2^16 before the handler
\* runs: PC is that value after every instruction that does not set PC from a
\* register, and the offsets of BR and JSR are added to it.
C5_FetchIncrementsPC ==
  at_fetch # <<>> /\ InLoop =>
    CASE Op(instr) = OP_BR ->
           reg[R_PC] \in {FetchedPC, U16(FetchedPC + sign_extend(instr % 512, 9))}
      [] Op(instr) = OP_JSR /\ Shr(instr, 11) % 2 = 1 ->
           reg[R_PC] = U16(FetchedPC + sign_extend(instr % 2048, 11))
      [] Op(instr) = OP_JSR /\ Shr(instr, 11) % 2 = 0 -> TRUE
      [] Op(instr) = OP_JMP -> TRUE
      [] OTHER -> reg[R_PC] = FetchedPC

\* C5 witness: the instruction at xFFFF was fetched and PC wrapped to 0
C5_Witness == at_fetch # <<>> /\ InLoop /\ at_fetch[R_PC] = 65535 /\ reg[R_PC] = 0

\* C6: every way out of the process taken while the terminal is raw (HALT,
\* the interrupt signal, the abort on RTI or a reserved opcode) leaves the
\* terminal with the settings it had before start-up.
C6_TerminalRestored ==
  [][tio = "raw" /\ phase' = "exited" /\ status' \in {"exit0", "exit254", "sigabrt"}
       => tio' = "cooked"]_vars

\* the effective address of the LD fetched last
LdAddress == U16(FetchedPC + sign_extend(instr % 512, 9))

\* C7 as amended: a word w stored at A, with no other write to A since (a poll
\* that stores a character into KBDR being a write to KBDR), is what an LD from
\* A puts into its destination register, for every A other than KBSR.
C7_RoundTripButKBSR ==
  /\ Executed
  /\ Op(instr) = OP_LD
  /\ last_write # <<>>
  /\ last_write[1] = LdAddress
  /\ LdAddress # MR_KBSR
  => reg[F9(instr)] = last_write[2]

\* C7 witness: a word stored below the keyboard registers was loaded back
C7_Witness ==
  /\ Executed
  /\ Op(instr) = OP_LD
  /\ last_write = <<LdAddress, 65021>>
  /\ reg[F9(instr)] = 65021

\* C7 as stated: the round trip for every address A, KBSR included
C7_RoundTripEveryAddress ==
  /\ Executed
  /\ Op(instr) = OP_LD
  /\ last_write # <<>>
  /\ last_write[1] = LdAddress
  => reg[F9(instr)] = last_write[2]

\* C8: after JSR, JSRR and every TRAP fetched at a, R7 is (a + 1) mod 2^16,
\* and a RET executed next after a JSR or JSRR brings PC back to that value.
C8_LinkRegister ==
  /\ at_fetch # <<>> /\ InLoop /\ Op(instr) \in {OP_JSR, OP_TRAP}
       => reg[R_R7] = FetchedPC
  /\ Executed /\ Op(instr) = OP_JSR
       => ExecJMP(NextPC(reg), 49600)[R_PC] = FetchedPC

\* C8 witness: JSR #2 at x3000, then the RET at x3003 has returned to x3001
C8_Witness ==
  /\ Executed
  /\ instr = 49600
  /\ 12288 \in DOMAIN memory
  /\ memory[12288] = 18434
  /\ at_fetch[R_PC] = 12291
  /\ at_fetch[R_R7] = 12289
  /\ reg[R_PC] = 12289

\* whether the mask of the BR fetched last names the flag COND held
BrTaken == \E flag \in {FL_POS, FL_ZRO, FL_NEG} :
             at_fetch[R_COND] = flag /\ (F9(instr) \div flag) % 2 = 1

\* C9: BR at a sets PC to (a + 1 + the sign-extended offset) mod 2^16 when its
\* mask names the flag in COND and leaves PC at a + 1 otherwise; mask 000
\* never branches and mask 111 always does.
C9_Branch ==
  Executed /\ Op(instr) = OP_BR =>
    /\ reg[R_PC] = IF BrTaken THEN U16(FetchedPC + sign_extend(instr % 512, 9))
                   ELSE FetchedPC
    /\ F9(instr) = 0 => reg[R_PC] = FetchedPC
    /\ F9(instr) = 7 => reg[R_PC] = U16(FetchedPC + sign_extend(instr % 512, 9))

\* C9 witness: BRz #2 was not taken, COND being FL_POS
C9_Witness ==
  Executed /\ instr = 1026 /\ at_fetch[R_COND] = FL_POS /\ reg[R_PC] = FetchedPC

\* C10: after a read of KBSR the status is x8000 only when a character was
\* pending, and KBDR then holds that character's byte.  Stated for runs that
\* have stored nothing: the keyboard registers hold what the polls left.
C10_ReadyMeansCharacter ==
  /\ last_write = <<>>
  /\ MR_KBSR \in DOMAIN memory
  /\ memory[MR_KBSR] = 32768
  => MR_KBDR \in DOMAIN memory /\ memory[MR_KBDR] \in InputBytes

\* the loop has stopped and main has not yet returned
Halted == phase = "run" /\ running = 0

\* C11: TRAP HALT stops the loop, and only TRAP HALT does; once stopped no
\* instruction is fetched, the terminal gets back its settings and the process
\* exits with code 0 (with the interrupt's code when SIGINT ends it first).
C11_Halt ==
  [][/\ budget' = budget - 1 /\ Op(instr') = OP_TRAP /\ instr' % 256 = TRAP_HALT
          => running' = 0 /\ phase' = "run"
     /\ running = 1 /\ running' = 0 /\ phase' = "run"
          => budget' = budget - 1 /\ Op(instr') = OP_TRAP /\ instr' % 256 = TRAP_HALT
     /\ Halted
          => /\ budget' = budget
             /\ phase' = "exited"
             /\ tio' = "cooked"
             /\ status' \in {"exit0", "exit254"}]_vars

\* C11 witness: the process has exited with code 0 after HALT's message, the
\* terminal restored
C11_Witness == status = "exit0" /\ tio = "cooked" /\ out = MsgHalt

\* the step fetches an instruction
FetchStep == budget' = budget - 1

\* No memory word is written in the step, the words at the addresses read
\* being the only ones that may become known in it
Unwritten(read) ==
  \A a \in DOMAIN memory' :
    IF a \in DOMAIN memory THEN memory'[a] = memory[a] ELSE a \in read

\* R0..R7 and COND are after the step what they were before
RegistersKept == \A r \in (R_R0 .. R_R7) \cup {R_COND} : reg'[r] = reg[r]

\* what C12 says of every step but the memory words: the fetch of an RTI or
\* reserved word changes no register and leads to abort(), after which no
\* instruction is fetched and the process is ended by SIGABRT (or by the
\* interrupt's handler, when SIGINT comes first)
AbortIsFatal ==
  /\ FetchStep /\ Op(instr') \in {OP_RTI, OP_RES}
       => phase' = "abort" /\ RegistersKept
  /\ phase = "abort"
       => /\ budget' = budget
          /\ phase' = "exited"
          /\ status' \in {"sigabrt", "exit254"}

\* C12 as amended: an instruction word with opcode RTI or RES is fatal, no
\* further instruction is executed, and the step changes no general-purpose
\* register, COND or memory word, except that a fetch from KBSR itself has
\* polled the keyboard and so written KBSR and KBDR.
C12_AbortButKeyboard ==
  [][/\ AbortIsFatal
     /\ FetchStep /\ Op(instr') \in {OP_RTI, OP_RES}
          => IF reg[R_PC] = MR_KBSR
             THEN \A a \in (DOMAIN memory) \ {MR_KBSR, MR_KBDR} : memory'[a] = memory[a]
             ELSE Unwritten({reg[R_PC]})]_vars

\* C12 witness: a reserved opcode was fetched with R1 loaded, abort() is next
C12_Witness ==
  phase = "abort" /\ Op(instr) = OP_RES /\ reg[1] = 65535 /\ at_fetch[1] = 65535

\* C12 as stated: no memory word changes in the step, wherever the word was
\* fetched from
C12_AbortChangesNothing ==
  [][/\ AbortIsFatal
     /\ FetchStep /\ Op(instr') \in {OP_RTI, OP_RES} => Unwritten({reg[R_PC]})]_vars

\* C13: a TRAP whose vector is none of x20..x25 aborts the machine: after its
\* fetch the process is at abort(), not back in the loop for the next
\* instruction.
C13_UnknownTrapAborts ==
  /\ at_fetch # <<>>
  /\ InLoop
  /\ Op(instr) = OP_TRAP
  /\ instr % 256 \notin TRAP_GETC .. TRAP_HALT
  => phase = "abort"

\* C14: after GETC and after IN, R0 is the byte value of the character read,
\* 0..255 with the upper eight bits zero, and COND is therefore not FL_NEG.
\* Stated for reads that found a character (the input has not ended).
C14_ByteInR0 ==
  /\ Executed
  /\ Op(instr) = OP_TRAP
  /\ instr % 256 \in {TRAP_GETC, TRAP_IN}
  /\ ~eof
  => reg[R_R0] \in 0 .. 255 /\ reg[R_COND] # FL_NEG

RECURSIVE StringAt(_, _, _)
\* the words of the string at address a of the 65536-word memory mem, up to
\* its first zero word (or the first word mem does not determine), at most n
StringAt(mem, a, n) ==
  IF n = 0 \/ a \notin DOMAIN mem \/ mem[a] = 0 THEN <<>>
  ELSE <<mem[a]>> \o StringAt(mem, (a + 1) % MEMORY_MAX, n - 1)

\* the addresses of the string at a and of the zero word that ends it
StringAddresses(mem, a) ==
  {(a + k) % MEMORY_MAX : k \in 0 .. Len(StringAt(mem, a, MaxStr + MaxSteps + 2))}

\* C15: TRAP PUTS writes the low byte of each word from address R0 up to the
\* first zero word, TRAP PUTSP the low byte and then the high byte when it is
\* not zero, and nothing else; the trap returns to the loop with R0..R6, COND
\* and every memory word as they were.
C15_StringOutput ==
  [][FetchStep /\ Op(instr') = OP_TRAP /\ instr' % 256 \in {TRAP_PUTS, TRAP_PUTSP}
       => LET str == StringAt(memory', reg[R_R0], MaxStr + MaxSteps + 2)
          IN /\ phase' = "run"
             /\ out' = out \o (IF instr' % 256 = TRAP_PUTS THEN PutsBytes(str)
                               ELSE PutspBytes(str))
             /\ \A r \in (R_R0 .. 6) \cup {R_COND} : reg'[r] = reg[r]
             /\ Unwritten({reg[R_PC]} \cup StringAddresses(memory', reg[R_R0]))]_vars

\* C16: PUTS and PUTSP read the string through mem_read: the scan address
\* wraps from xFFFF to x0000, so the trap never reads outside memory[] and is
\* back in the loop afterwards, and a scan that reads KBSR has polled the
\* keyboard, leaving x8000 or 0 there.
C16_ScanThroughMemRead ==
  /\ at_fetch # <<>>
  /\ InLoop
  /\ Op(instr) = OP_TRAP
  /\ instr % 256 \in {TRAP_PUTS, TRAP_PUTSP}
  => /\ phase = "run"
     /\ LET read == StringAddresses(memory, at_fetch[R_R0])
        IN /\ MR_KBSR \in read => memory[MR_KBSR] \in {0, 32768}
           /\ 65535 \in read /\ memory[65535] # 0 => 0 \in DOMAIN memory

\* the origin an image file names and its payload word k (from 0), big-endian
FileOrigin(bytes) == bytes[1] * 256 + bytes[2]
FileWord(bytes, k) == bytes[2 * k + 3] * 256 + bytes[2 * k + 4]

\* C17: loading one image with origin o and n payload words into the empty
\* memory sets memory[o + k] to payload word k for every k below
\* min(n, 65536 - o) and no other word, for every origin, o = 0 included.
C17_ImageLoad ==
  phase = "loaded" /\ Len(argv) = 1 =>
    LET o == FileOrigin(argv[1].bytes)
        n == (Len(argv[1].bytes) - 2) \div 2
        loaded == IF n < MEMORY_MAX - o THEN n ELSE MEMORY_MAX - o
    IN /\ DOMAIN memory = {o + k : k \in 0 .. (loaded - 1)}
       /\ \A k \in 0 .. (loaded - 1) : memory[o + k] = FileWord(argv[1].bytes, k)

\* what image file j of the command line alone puts into memory
ImageAlone(j) == read_image_file(<<>>, argv[j].bytes)

C19_InterruptRestores ==
  status = "exit254" => tio = "cooked" /\ phase = "exited"

\* C20: once ADD dr,sr1,sr2, NOT dr,dr and ADD dr,dr,#1 have been executed,
\* dr holds (2^16 - ((a + b) mod 2^16)) mod 2^16 for the values a and b that
\* sr1 and sr2 held before the first of them, whatever the three register
\* numbers are, and COND is the flag of that value.
C20_Negation ==
  reg[R_PC] = PC_START + 3 =>
    LET dr == (memory[PC_START] \div 512) % 8
        a == memory[NegData]
        b == memory[NegData + 1]
        v == (65536 - ((a + b) % 65536)) % 65536
    IN reg[dr] = v /\ reg[R_COND] = FlagOf(v)

\* C20 witness: ADD R1,R1,R2 with 1 and 0x7FFF, the destination being one of
\* the sources, has been negated to 0x8000
C20_Witness ==
  /\ reg[R_PC] = PC_START + 3
  /\ memory[PC_START] = 4674
  /\ memory[NegData] = 1
  /\ memory[NegData + 1] = 32767
  /\ reg[1] = 32768
  /\ reg[R_COND] = FL_NEG

\* the width of the field the instruction word i passes to sign_extend
SextWidth(i) ==
  CASE Op(i) = OP_ADD -> 5
    [] Op(i) = OP_STR -> 6
    [] Op(i) = OP_LEA -> 9
    [] Op(i) = OP_JSR -> 11

\* what the instruction at 0x3000 made of its field, the registers having
\* been zero: the sum in R0, the address stored to, the address in R0 less
\* that of the next instruction, the new PC less that address
SextSeen ==
  CASE Op(instr) = OP_ADD -> reg[R_R0]
    [] Op(instr) = OP_STR -> last_write[1]
    [] Op(instr) = OP_LEA -> U16(reg[R_R0] + 65536 - (PC_START + 1))
    [] Op(instr) = OP_JSR -> U16(reg[R_PC] + 65536 - (PC_START + 1))

\* C26: for n in {5, 6, 9, 11} and every x below 2^n, sign_extend(x, n) is a
\* 16-bit value whose low n bits are x and whose bits n..15 are all ones when
\* bit n-1 of x is set and all zeros otherwise; it is the value the
\* instruction holding the field works with.
C26_SignExtend ==
  at_fetch[R_PC] = PC_START =>
    LET n == SextWidth(instr)
        x == instr % (2 ^ n)
        s == sign_extend(x, n)
    IN /\ s \in 0 .. 65535
       /\ s % (2 ^ n) = x
       /\ s \div (2 ^ n) = (IF (x \div (2 ^ (n - 1))) % 2 = 1 THEN 2 ^ (16 - n) - 1 ELSE 0)
       /\ SextSeen = s

\* C26 witness: ADD R0,R1,#-1 has given sign_extend(0x1F, 5) = 0xFFFF
C26_Witness ==
  /\ at_fetch[R_PC] = PC_START
  /\ instr = 4223
  /\ reg[R_R0] = 65535

\* C25: after a JSRR (opcode JSR with bit 11 clear) fetched at address a, PC
\* is what the base register held when the instruction was fetched, for each
\* of R0..R7 as base register, and R7 is (a + 1) mod 2^16.
C25_JsrrBaseRegister ==
  Executed /\ Op(instr) = OP_JSR /\ Shr(instr, 11) % 2 = 0
    => /\ reg[R_PC] = at_fetch[F6(instr)]
       /\ reg[R_R7] = FetchedPC

\* bit k of the 16-bit value v
BitOf(v, k) == (v \div (2 ^ k)) % 2

\* sext(instr[4:0], 5) when bit 5 of i is set, the register instr[2:0] of the
\* register file rg otherwise
AluOperand(rg, i) ==
  IF BitOf(i, 5) = 1
  THEN (IF i % 32 >= 16 THEN 65504 + (i % 32) ELSE i % 32)
  ELSE rg[i % 8]

\* C22: a turn of the loop that fetches an ADD or an AND leaves in DR the sum
\* modulo 2^16, or the bitwise conjunction, of SR1 and the operand as they
\* were before it, changes no other general-purpose register, writes no
\* memory word, and goes on to the next instruction.
C22_AddAnd ==
  [][FetchStep /\ Op(instr') \in {OP_ADD, OP_AND} =>
       LET i == instr'
           dr == (i \div 512) % 8
           a == reg[(i \div 64) % 8]
           b == AluOperand(reg, i)
       IN /\ Op(i) = OP_ADD => reg'[dr] = (a + b) % 65536
          /\ Op(i) = OP_AND =>
               /\ reg'[dr] \in 0 .. 65535
               /\ \A k \in 0 .. 15 : BitOf(reg'[dr], k) = BitOf(a, k) * BitOf(b, k)
          /\ \A r \in (R_R0 .. R_R7) \ {dr} : reg'[r] = reg[r]
          /\ Unwritten({reg[R_PC]})
          /\ memory'[reg[R_PC]] = i
          /\ phase' = "run"]_vars

\* C22 witness: ADD R1,R1,#-1 on R1 = 0 has given R1 = 0xFFFF, COND = N and
\* PC = 0x3001
C22_Witness ==
  /\ at_fetch[R_PC] = PC_START
  /\ instr = 4735
  /\ at_fetch[1] = 0
  /\ reg[1] = 65535
  /\ reg[R_COND] = FL_NEG
  /\ reg[R_PC] = 12289

\* the 9-bit and the 6-bit offset of the instruction word i as 16-bit
\* two's complement values
Sext9(i) == IF i % 512 >= 256 THEN 65024 + (i % 512) ELSE i % 512
Sext6(i) == IF i % 64 >= 32 THEN 65472 + (i % 64) ELSE i % 64

\* (a + 1 + sext9) mod 2^16 for the instruction i fetched in this step at a
PcRelative(i) == (reg[R_PC] + 1 + Sext9(i)) % 65536

\* (reg[BaseR] + sext6) mod 2^16, the base register as the fetch finds it
BaseRelative(i) == (reg[(i \div 64) % 8] + Sext6(i)) % 65536

\* the address the step finds stored at p: the word held there before the
\* step, or the word the step determines there (for KBSR the status the
\* step's poll stores)
PointerAt(p) == IF p \in DOMAIN memory /\ p # MR_KBSR THEN memory[p] ELSE memory'[p]

\* The step has changed no memory word but KBSR and KBDR, and those only with
\* KBSR among the addresses read; d is the set of addresses the step may
\* determine or write
MemoryKept(read, d) ==
  \A x \in DOMAIN memory' :
    IF x \in DOMAIN memory
    THEN memory'[x] # memory[x] => x \in d \/ (x \in {MR_KBSR, MR_KBDR} /\ MR_KBSR \in read)
    ELSE x \in read \cup d \/ (x \in {MR_KBSR, MR_KBDR} /\ MR_KBSR \in read)

\* C23: a turn of the loop that fetches LD, LDR or LDI at address a puts into
\* DR the word at the effective address, (a + 1 + sext9) mod 2^16 for LD,
\* (reg[BaseR] + sext6) mod 2^16 for LDR and the address stored at
\* (a + 1 + sext9) mod 2^16 for LDI; it changes no other general-purpose
\* register, and no memory word other than KBSR and KBDR, those only when a
\* read is of 0xFE00.
C23_Loads ==
  [][FetchStep /\ Op(instr') \in {OP_LD, OP_LDR, OP_LDI} =>
       LET i == instr'
           dr == (i \div 512) % 8
           p == PcRelative(i)
           ea == IF Op(i) = OP_LD THEN p
                 ELSE IF Op(i) = OP_LDR THEN BaseRelative(i)
                 ELSE PointerAt(p)
           read == IF Op(i) = OP_LDI THEN {reg[R_PC], p, ea} ELSE {reg[R_PC], ea}
       IN /\ Op(i) = OP_LDI => p \in DOMAIN memory'
          /\ ea \in DOMAIN memory'
          /\ reg'[dr] = memory'[ea]
          /\ ea \in DOMAIN memory /\ ea # MR_KBSR
               /\ ~(ea = MR_KBDR /\ MR_KBSR \in read) => reg'[dr] = memory[ea]
          /\ \A r \in (R_R0 .. R_R7) \ {dr} : reg'[r] = reg[r]
          /\ MemoryKept(read, {})
          /\ phase' = "run"]_vars

\* C23 witness: LDI R1,#1 at 0x3000, with 0x3050 at 0x3002 and 0xBEEF at
\* 0x3050, has given R1 = 0xBEEF, COND = N, PC = 0x3001
C23_Witness ==
  /\ at_fetch[R_PC] = PC_START
  /\ instr = 41473
  /\ 12290 \in DOMAIN memory /\ memory[12290] = 12368
  /\ 12368 \in DOMAIN memory /\ memory[12368] = 48879
  /\ at_fetch[1] # 48879
  /\ reg[1] = 48879
  /\ reg[R_COND] = FL_NEG
  /\ reg[R_PC] = 12289

\* C24: a turn of the loop that fetches ST, STR or STI at address a stores
\* reg[instr[11:9]] in one word, at (a + 1 + sext9) mod 2^16 for ST, at
\* (reg[BaseR] + sext6) mod 2^16 for STR and at the address read from
\* (a + 1 + sext9) mod 2^16 for STI, also when that word is KBSR or KBDR;
\* every other memory word is as before, but for KBSR and KBDR when the
\* pointer word of an STI is KBSR; no register but PC changes.
C24_Stores ==
  [][FetchStep /\ Op(instr') \in {OP_ST, OP_STR, OP_STI} =>
       LET i == instr'
           p == PcRelative(i)
           target == IF Op(i) = OP_ST THEN p
                     ELSE IF Op(i) = OP_STR THEN BaseRelative(i)
                     ELSE PointerAt(p)
           read == IF Op(i) = OP_STI THEN {reg[R_PC], p} ELSE {reg[R_PC]}
       IN /\ Op(i) = OP_STI => p \in DOMAIN memory'
          /\ target \in DOMAIN memory'
          /\ memory'[target] = reg[(i \div 512) % 8]
          /\ MemoryKept(read, {target})
          /\ RegistersKept
          /\ reg'[R_PC] = (reg[R_PC] + 1) % 65536
          /\ phase' = "run"]_vars

\* C24 witness: STR R0,R1,#0 with R1 = 0xFE00 has stored R0 in KBSR, and KBDR
\* is what it was
C24_Witness ==
  /\ at_fetch[R_PC] = PC_START
  /\ instr = 28736
  /\ at_fetch[1] = 65024
  /\ memory[MR_KBSR] = 48879
  /\ memory[MR_KBDR] = 65
  /\ last_write = <<65024, 48879>>

\* case OP_LD with the instruction word i in hand: the outcomes [reg, mem, io]
\* of executing it on registers rg (PC incremented), memory mem, keyboard io
LdOutcomes(mem, io, rg, i) ==
  { [reg |-> Loaded(rg, i, r.val), mem |-> r.mem, io |-> r.io]
    : r \in mem_read(mem, io, AddrPC9(rg, i), DataWords) }

\* the address of the LD that lies in memory beside the LEA and the LDR
LdPlace == CHOOSE b \in DOMAIN memory : Op(memory[b]) = OP_LD

\* C21: LEA r,label followed by LDR r',r,#0 leaves in r' and in COND what the
\* LD r',label lying in the same memory leaves there when it is executed from
\* the memory and the keyboard that the LEA found, for every label a 9-bit
\* offset reaches.  In steps: the LEA changes neither memory nor keyboard;
\* the LDR behind it ends as one of the outcomes of the LD on that memory and
\* keyboard, equal in r', in COND, in memory and in the keyboard; and what
\* the LD does when it is the instruction fetched is one of those outcomes.
C21_LeaLdrIsLd ==
  [][/\ FetchStep /\ Op(instr') = OP_LEA => memory' = memory /\ IO' = IO
     /\ FetchStep /\ Op(instr') = OP_LDR /\ Op(instr) = OP_LEA =>
          LET b == LdPlace
              ld == memory[b]
              label == (at_fetch[R_PC] + 1 + Sext9(instr)) % 65536
              dr == (ld \div 512) % 8
          IN /\ dr = (instr' \div 512) % 8
             /\ (b + 1 + Sext9(ld)) % 65536 = label
             /\ \E o \in LdOutcomes(memory, IO, [reg EXCEPT ![R_PC] = U16(b + 1)], ld) :
                  /\ reg'[dr] = o.reg[dr]
                  /\ reg'[R_COND] = o.reg[R_COND]
                  /\ memory' = o.mem
                  /\ IO' = o.io
     /\ FetchStep /\ Op(instr') = OP_LD =>
          \E o \in LdOutcomes(memory, IO, NextPC(reg), instr') :
             reg' = o.reg /\ memory' = o.mem /\ IO' = o.io]_vars

\* C21 witness: with KBSR as the label and a key typed, the LDR behind the
\* LEA has left 0x8000 in r' and N in COND, the key in KBDR
C21_Witness ==
  /\ Op(instr) = OP_LDR
  /\ at_fetch[R_PC] = 65009
  /\ at_fetch[F6(instr)] = MR_KBSR
  /\ reg[F9(instr)] = 32768
  /\ reg[R_COND] = FL_NEG
  /\ memory[MR_KBDR] = 65

====
